---- MODULE Spec2Model ----
(***************************************************************************)
(* macow: the Glow multi-scale flow (flows/glow.py), its NICE coupling     *)
(* (flows/nice.py) and the generative-model wrapper (model.py).            *)
(*                                                                         *)
(* Abstractions.  A tensor is the slice of one example: a sequence of      *)
(* channels, each a sequence of values over the spatial positions taken in *)
(* Z-order, so that a 2x2 block is four consecutive positions.  Floating   *)
(* point values are the field Z_5: products and quotients are exact, which *)
(* stands for "equal up to floating-point tolerance" (the 1e-12 guard of   *)
(* the inverse division is below that tolerance).  log is the map Lg.      *)
(* Learned parameters are fixed: init computes what forward computes and   *)
(* the init calls it makes are logged.  A Python exception is the exc      *)
(* field of a result; "none" is a normal return.                           *)
(***************************************************************************)
EXTENDS Integers, Sequences, FiniteSets, TLC

\* ---------------------------------------------------------------- bounds
\* levels tried by the constructor: 0 .. MaxLevels; steps per level: 0 .. MaxSteps
MaxLevels == 2
MaxSteps == 2

\* ------------------------------------------------------- values, tensors
Val == 0 .. 4
Mod5(x) == x % 5
\* the multiplicative inverse in Z_5 of a non-zero value
Inv5(v) == CHOOSE w \in 1 .. 4 : Mod5(v * w) = 1
\* log of a scale, as an integer code
Lg(v) == v - 1

\* Python's None for an optional tensor; a conditioning tensor is one channel
\* that holds the value v at every position: <<v>>
None == <<>>

Min(a, b) == IF a < b THEN a ELSE b

RECURSIVE Pow4(_)
Pow4(n) == IF n <= 0 THEN 1 ELSE 4 * Pow4(n - 1)

\* the function f of domain 1 .. n, as the tuple it equals (evaluated once)
AsSeq(f) == f \o <<>>

RECURSIVE SumTo(_, _)
SumTo(s, n) == IF n <= 0 THEN 0 ELSE s[n] + SumTo(s, n - 1)
SumSeq(s) == SumTo(s, Len(s))

NumCh(t) == Len(t)
NumPos(t) == IF Len(t) = 0 THEN 0 ELSE Len(t[1])

\* t[:, lo:hi] with Python's half-open, zero-based channel slice
Channels(t, lo, hi) == SubSeq(t, lo + 1, hi)
\* torch.cat([a, b], dim=1)
Cat(a, b) == a \o b
\* the sum over all non-batch dims of the elementwise Lg
SumLg(t) == SumSeq(AsSeq([c \in 1 .. Len(t) |-> SumSeq(AsSeq([p \in 1 .. Len(t[c]) |-> Lg(t[c][p])]))]))

\* -------------------------------------------- macow.utils (not in src/)
\* space-to-depth by 2: channel c, block q -> channels 4(c-1)+1 .. 4c, position q
squeeze2d(t) ==
    AsSeq([d \in 1 .. 4 * NumCh(t) |->
        AsSeq([q \in 1 .. NumPos(t) \div 4 |-> t[((d - 1) \div 4) + 1][4 * (q - 1) + ((d - 1) % 4) + 1]])])

unsqueeze2d(t) ==
    AsSeq([c \in 1 .. NumCh(t) \div 4 |->
        AsSeq([p \in 1 .. 4 * NumPos(t) |-> t[4 * (c - 1) + ((p - 1) % 4) + 1][((p - 1) \div 4) + 1]])])

\* the channel partition (z1, z2) at the coupling's boundary
split2d(t) ==
    LET z1c == NumCh(t) - (NumCh(t) \div 2)
    IN  <<Channels(t, 0, z1c), Channels(t, z1c, NumCh(t))>>

unsplit2d(t1, t2) == Cat(t1, t2)

\* ------------------------------------------------------------- results
\* what a flow call hands back: the exception (or "none"), the tensor, the
\* per-example logdet and the log of the calls made so far
Ret(out, logdet, log) == [exc |-> "none", out |-> out, logdet |-> logdet, log |-> log]
Raise(exc, log) == [exc |-> exc, out |-> <<>>, logdet |-> 0, log |-> log]

\* v = <expression>; <the statements K that follow, reading v>
With(v, K(_)) == K(v)
\* r = <call>; <the statements K that follow>: an exception of the call is
\* propagated and the statements that follow do not run
Bind(r, K(_)) == IF r.exc /= "none" THEN r ELSE K(r)

\* a log entry.  kind: "call" (a method is entered or its call is attempted),
\* "ret" (a coupling returns, val its logdet), "push"/"pop" (the residual
\* list, val the residual).  cond is the conditioning tensor handed
\* over, iscale the init_scale handed over (<<>> when the call has none).
Ev(kind, obj, op, cond, iscale, val) ==
    [kind |-> kind, obj |-> obj, op |-> op, kw |-> "", cond |-> cond, iscale |-> iscale, val |-> val]
\* the entry of a call that hands cond over under the keyword kw ("": not at all)
EvCall(obj, op, kw, cond, iscale) ==
    [kind |-> "call", obj |-> obj, op |-> op, kw |-> kw, cond |-> cond, iscale |-> iscale, val |-> <<>>]
\* the name of a component: its role, its level and its step (-1: of the block)
Obj(role, level, step) == [role |-> role, level |-> level, step |-> step]

\* elementwise maps over tensors of one shape
TMul(a, b) == AsSeq([c \in 1 .. Len(a) |-> AsSeq([p \in 1 .. Len(a[c]) |-> Mod5(a[c][p] * b[c][p])])])
TAdd(a, b) == AsSeq([c \in 1 .. Len(a) |-> AsSeq([p \in 1 .. Len(a[c]) |-> Mod5(a[c][p] + b[c][p])])])
TSub(a, b) == AsSeq([c \in 1 .. Len(a) |-> AsSeq([p \in 1 .. Len(a[c]) |-> Mod5(a[c][p] - b[c][p] + 5)])])
TDiv(a, b) == AsSeq([c \in 1 .. Len(a) |-> AsSeq([p \in 1 .. Len(a[c]) |-> Mod5(a[c][p] * Inv5(b[c][p]))])])

\* ------------------------- macow.nnet, macow.flows.conv (not in src/)
\* sigmoid: a value of the bounded positive range, never 0
Sigmoid(v) == 1 + (v % 4)
\* gate(x1, x2): the gated combination of two channel chunks
gate(x1, x2) ==
    AsSeq([c \in 1 .. Len(x1) |-> AsSeq([p \in 1 .. Len(x1[c]) |-> Mod5(x1[c][p] * Sigmoid(x2[c][p]))])])
\* c.chunk(n, dim=1)[k-1]
Chunk(c, n, k) == Channels(c, (k - 1) * (NumCh(c) \div n), k * (NumCh(c) \div n))
\* the three weight-normalised convolutions with their activations, as one
\* fixed function of the input channels at a position
ConvStack(x, out_channels) ==
    AsSeq([j \in 1 .. out_channels |->
        AsSeq([p \in 1 .. NumPos(x) |->
            Mod5(j + SumSeq(AsSeq([c \in 1 .. NumCh(x) |-> (1 + ((c + j) % 4)) * x[c][p]])))])])

\* --------------------------------------------------- flows/nice.py
\* NICEBlock.__init__: the channel counts of conv1 (input) and conv3 (output)
NICEBlock__init__(in_channels, out_channels, hidden_channels, s_channels) ==
    [conv1_in |-> in_channels + s_channels, hidden |-> hidden_channels, conv3_out |-> out_channels]

\* the concatenation of the input with the conditioning tensor, when given
NICEBlock_input(x, s) ==
    IF s /= None
    THEN Cat(x, AsSeq([c \in 1 .. Len(s) |-> AsSeq([p \in 1 .. NumPos(x) |-> s[c]])]))
    ELSE x

\* NICEBlock.forward: [exc, out]
NICEBlock_forward(net, x, s) ==
    With(NICEBlock_input(x, s), LAMBDA xs :
        IF NumCh(xs) /= net.conv1_in
        THEN [exc |-> "RuntimeError", out |-> <<>>]
        ELSE [exc |-> "none", out |-> ConvStack(xs, net.conv3_out)])

\* faulty variant: conv2.init is left with its default init_scale=1.0
NICEBlock_init_scales_Default(init_scale) == <<init_scale, 1, 0>>

\* the init_scale NICEBlock.init hands to conv1, conv2 and conv3
NICEBlock_init_scales(init_scale) == <<init_scale, init_scale, 0>>

\* NICEBlock.init: [exc, out, log]; the init call of each convolution is logged
NICEBlock_init(net, x, s, init_scale, obj, log) ==
    With(NICEBlock_input(x, s), LAMBDA xs :
    With(NICEBlock_init_scales(init_scale), LAMBDA sc :
    With(Append(log, EvCall([obj EXCEPT !.role = "conv1"], "init", "", None, <<sc[1]>>)), LAMBDA l1 :
        IF NumCh(xs) /= net.conv1_in
        THEN [exc |-> "RuntimeError", out |-> <<>>, log |-> l1]
        ELSE [exc |-> "none", out |-> ConvStack(xs, net.conv3_out),
              log |-> l1 \o <<EvCall([obj EXCEPT !.role = "conv2"], "init", "", None, <<sc[2]>>),
                              EvCall([obj EXCEPT !.role = "conv3"], "init", "", None, <<sc[3]>>)>>])))

\* NICE.__init__
NICE__init__(obj, in_channels, scale, inverse) ==
    LET hidden_channels == Min(8 * in_channels, 512)
        out_channels == in_channels \div 2
        z1_channels == in_channels - out_channels
        net_out == IF scale THEN out_channels * 2 ELSE out_channels
    IN  [obj |-> obj, in_channels |-> in_channels, scale |-> scale, inverse |-> inverse,
         z1_channels |-> z1_channels,
         net |-> NICEBlock__init__(z1_channels, net_out * 2, hidden_channels, 0)]

\* mu and scale from the network's output c
MuAndScale(nice, c) ==
    IF nice.scale
    THEN With(gate(Chunk(c, 4, 3), Chunk(c, 4, 4)), LAMBDA log_scale :
             [mu |-> gate(Chunk(c, 4, 1), Chunk(c, 4, 2)),
              scale |-> AsSeq([j \in 1 .. Len(log_scale) |->
                            AsSeq([p \in 1 .. Len(log_scale[j]) |-> Sigmoid(Mod5(log_scale[j][p] + 2))])])])
    ELSE [mu |-> gate(Chunk(c, 2, 1), Chunk(c, 2, 2)), scale |-> None]

\* NICE.calc_mu_and_scale: [exc, mu, scale]
calc_mu_and_scale(nice, z1, s) ==
    Bind(NICEBlock_forward(nice.net, z1, s), LAMBDA c : [exc |-> "none"] @@ MuAndScale(nice, c.out))

\* NICE.init_net: [exc, mu, scale, log]
init_net(nice, z1, s, init_scale, log) ==
    Bind(NICEBlock_init(nice.net, z1, s, init_scale, nice.obj, log), LAMBDA c :
        [exc |-> "none", log |-> c.log] @@ MuAndScale(nice, c.out))

\* the logdet of the forward direction: sum(log(scale)), or zeros without scale
NICE_logdet(nice, scale) == IF nice.scale THEN SumLg(scale) ELSE 0

\* the bodies of NICE.forward and NICE.init after mu and scale are known
NICE_apply(nice, op, input, ms, log) ==
    With(Channels(input, 0, nice.z1_channels), LAMBDA z1 :
    With(Channels(input, nice.z1_channels, NumCh(input)), LAMBDA z2 :
    With(NICE_logdet(nice, ms.scale), LAMBDA logdet :
        Ret(Cat(z1, TAdd(IF nice.scale THEN TMul(z2, ms.scale) ELSE z2, ms.mu)), logdet,
            Append(log, Ev("ret", nice.obj, op, None, <<>>, <<logdet>>))))))

\* NICE.forward(input, s)
NICE_forward(nice, input, s, log) ==
    With(calc_mu_and_scale(nice, Channels(input, 0, nice.z1_channels), s), LAMBDA ms :
        IF ms.exc /= "none" THEN Raise(ms.exc, log) ELSE NICE_apply(nice, "forward", input, ms, log))

\* NICE.backward(input, s)
NICE_backward(nice, input, s, log) ==
    With(Channels(input, 0, nice.z1_channels), LAMBDA z1 :
    With(Channels(input, nice.z1_channels, NumCh(input)), LAMBDA z2 :
    With(calc_mu_and_scale(nice, z1, s), LAMBDA ms :
        IF ms.exc /= "none"
        THEN Raise(ms.exc, log)
        ELSE With(-1 * NICE_logdet(nice, ms.scale), LAMBDA logdet :
                 Ret(Cat(z1, IF nice.scale THEN TDiv(TSub(z2, ms.mu), ms.scale) ELSE TSub(z2, ms.mu)),
                     logdet, Append(log, Ev("ret", nice.obj, "backward", None, <<>>, <<logdet>>)))))))

\* NICE.init(data, s, init_scale)
NICE_init(nice, data, s, init_scale, log) ==
    With(init_net(nice, Channels(data, 0, nice.z1_channels), s, init_scale, log), LAMBDA ms :
        IF ms.exc /= "none" THEN Raise(ms.exc, ms.log) ELSE NICE_apply(nice, "init", data, ms, ms.log))

\* the keyword parameters NICE.forward, NICE.backward and NICE.init declare
NICE_keywords(op) == IF op = "init" THEN {"s", "init_scale"} ELSE {"s"}

\* Python's call of a NICE method with the conditioning tensor cond handed
\* over under the keyword kw ("" when the caller hands over none, and s takes
\* its default None) and, for init, init_scale (<<v>>) as a keyword: a keyword
\* the method does not declare is a TypeError before its body runs
NICE_call(nice, op, input, kw, cond, iscale, log) ==
    With(Append(log, EvCall(nice.obj, op, kw, cond, iscale)), LAMBDA l1 :
    With(IF kw = "" THEN None ELSE cond, LAMBDA s :
        IF ~(((IF kw = "" THEN {} ELSE {kw}) \cup (IF iscale = <<>> THEN {} ELSE {"init_scale"}))
                 \subseteq NICE_keywords(op))
        THEN Raise("TypeError", l1)
        ELSE CASE op = "forward" -> NICE_forward(nice, input, s, l1)
               [] op = "backward" -> NICE_backward(nice, input, s, l1)
               [] OTHER -> NICE_init(nice, input, s, iscale[1], l1)))

\* ------------------------------------- flows/conv.py (not in src/)
\* Conv1x1Flow: an invertible linear map over the channels, the same at every
\* position: the channels rotated by one and multiplied by the weight w
Conv1x1Flow__init__(obj, in_channels, inverse) ==
    [obj |-> obj, in_channels |-> in_channels, inverse |-> inverse,
     w |-> IF obj.step % 2 = 0 THEN 2 ELSE 3]

\* Conv1x1Flow.forward, .backward and .init, each declaring the keyword h;
\* logdet = H * W * log|det(weight)|
Conv1x1_call(conv, op, input, h, iscale, log) ==
    With(NumCh(input), LAMBDA n :
    With(NumPos(input) * n * Lg(conv.w), LAMBDA logdet :
        IF op = "backward"
        THEN Ret(AsSeq([c \in 1 .. n |-> AsSeq([p \in 1 .. NumPos(input) |->
                     Mod5(Inv5(conv.w) * input[IF c = 1 THEN n ELSE c - 1][p])])]), -1 * logdet,
                 Append(log, EvCall(conv.obj, op, "h", h, iscale)))
        ELSE Ret(AsSeq([c \in 1 .. n |-> AsSeq([p \in 1 .. NumPos(input) |->
                     Mod5(conv.w * input[(c % n) + 1][p])])]), logdet,
                 Append(log, EvCall(conv.obj, op, "h", h, iscale)))))

\* --------------------------------------------------- flows/glow.py
\* faulty variant: the step's coupling is built with scale=True, as the prior is
StepScale_True(scale) == TRUE

\* the scale flag GlowStep.__init__ gives its coupling
StepScale(scale) == scale

\* GlowStep.__init__
GlowStep__init__(level, i, in_channels, scale, inverse) ==
    [obj |-> Obj("step", level, i),
     conv1x1 |-> Conv1x1Flow__init__(Obj("conv1x1", level, i), in_channels, inverse),
     coupling |-> NICE__init__(Obj("coupling", level, i), in_channels, StepScale(scale), inverse)]

\* GlowStep.forward(input, h)
GlowStep_forward(step, input, h, log) ==
    Bind(Conv1x1_call(step.conv1x1, "forward", input, h, <<>>, log), LAMBDA r1 :
    Bind(NICE_call(step.coupling, "forward", r1.out, "h", h, <<>>, r1.log), LAMBDA r2 :
        Ret(r2.out, r1.logdet + r2.logdet, r2.log)))

\* GlowStep.backward(input, h)
GlowStep_backward(step, input, h, log) ==
    Bind(NICE_call(step.coupling, "backward", input, "", None, <<>>, log), LAMBDA r1 :
    Bind(Conv1x1_call(step.conv1x1, "backward", r1.out, h, <<>>, r1.log), LAMBDA r2 :
        Ret(r2.out, r1.logdet + r2.logdet, r2.log)))

\* GlowStep.init(data, h, init_scale)
GlowStep_init(step, data, h, init_scale, log) ==
    Bind(Conv1x1_call(step.conv1x1, "init", data, h, <<init_scale>>, log), LAMBDA r1 :
    Bind(NICE_call(step.coupling, "init", r1.out, "h", h, <<init_scale>>, r1.log), LAMBDA r2 :
        Ret(r2.out, r1.logdet + r2.logdet, r2.log)))

\* step.forward(out, h=h), step.backward(out, h=h), step.init(out, h=h, init_scale=...)
GlowStep_call(step, op, input, h, iscale, log) ==
    With(Append(log, EvCall(step.obj, op, "h", h, iscale)), LAMBDA l1 :
        CASE op = "forward" -> GlowStep_forward(step, input, h, l1)
          [] op = "backward" -> GlowStep_backward(step, input, h, l1)
          [] OTHER -> GlowStep_init(step, input, h, iscale[1], l1))

Reverse(s) == AsSeq([i \in 1 .. Len(s) |-> s[Len(s) + 1 - i]])

\* for step in steps: out, logdet = step.<op>(out, ...); logdet_accum += logdet
\* (acc is the result so far; an exception ends the loop)
RECURSIVE StepLoop(_, _, _, _, _)
StepLoop(steps, op, h, iscale, acc) ==
    IF Len(steps) = 0 \/ acc.exc /= "none" THEN acc
    ELSE StepLoop(Tail(steps), op, h, iscale,
             Bind(GlowStep_call(Head(steps), op, acc.out, h, iscale, acc.log), LAMBDA r :
                 Ret(r.out, acc.logdet + r.logdet, r.log)))

\* GlowTopBlock.__init__
GlowTopBlock__init__(level, num_steps, in_channels, scale, inverse) ==
    [kind |-> "top", obj |-> Obj("block", level, -1), in_channels |-> in_channels,
     steps |-> AsSeq([i \in 1 .. num_steps |-> GlowStep__init__(level, i - 1, in_channels, scale, inverse)]),
     prior |-> None]

\* GlowTopBlock.forward(input, h)
GlowTopBlock_forward(block, input, h, log) ==
    StepLoop(block.steps, "forward", h, <<>>, Ret(input, 0, log))

\* GlowTopBlock.backward(input, h)
GlowTopBlock_backward(block, input, h, log) ==
    StepLoop(Reverse(block.steps), "backward", h, <<>>, Ret(input, 0, log))

\* GlowTopBlock.init(data, h, init_scale)
GlowTopBlock_init(block, data, h, init_scale, log) ==
    StepLoop(block.steps, "init", h, <<init_scale>>, Ret(data, 0, log))

\* the scale flag GlowInternalBlock.__init__ gives its prior
PriorScale(scale) == TRUE

\* GlowInternalBlock.__init__
GlowInternalBlock__init__(level, num_steps, in_channels, scale, inverse) ==
    [kind |-> "internal", obj |-> Obj("block", level, -1), in_channels |-> in_channels,
     steps |-> AsSeq([i \in 1 .. num_steps |-> GlowStep__init__(level, i - 1, in_channels, scale, inverse)]),
     prior |-> NICE__init__(Obj("prior", level, -1), in_channels, PriorScale(scale), inverse)]

\* GlowInternalBlock.forward(input, h)
GlowInternalBlock_forward(block, input, h, log) ==
    Bind(StepLoop(block.steps, "forward", h, <<>>, Ret(input, 0, log)), LAMBDA r1 :
    Bind(NICE_call(block.prior, "forward", r1.out, "h", h, <<>>, r1.log), LAMBDA r2 :
        Ret(r2.out, r1.logdet + r2.logdet, r2.log)))

\* GlowInternalBlock.backward(input, h)
GlowInternalBlock_backward(block, input, h, log) ==
    Bind(NICE_call(block.prior, "backward", input, "h", h, <<>>, log), LAMBDA r1 :
        StepLoop(Reverse(block.steps), "backward", h, <<>>, r1))

\* GlowInternalBlock.init(data, h, init_scale)
GlowInternalBlock_init(block, data, h, init_scale, log) ==
    Bind(StepLoop(block.steps, "init", h, <<init_scale>>, Ret(data, 0, log)), LAMBDA r1 :
    Bind(NICE_call(block.prior, "init", r1.out, "h", h, <<init_scale>>, r1.log), LAMBDA r2 :
        Ret(r2.out, r1.logdet + r2.logdet, r2.log)))

\* block.forward(out, h=h), block.backward(out, h=h), block.init(out, h=h, init_scale=...)
Block_call(block, op, input, h, iscale, log) ==
    With(Append(log, EvCall(block.obj, op, "h", h, iscale)), LAMBDA l1 :
        CASE op = "forward" /\ block.kind = "top" -> GlowTopBlock_forward(block, input, h, l1)
          [] op = "forward" /\ block.kind = "internal" -> GlowInternalBlock_forward(block, input, h, l1)
          [] op = "backward" /\ block.kind = "top" -> GlowTopBlock_backward(block, input, h, l1)
          [] op = "backward" /\ block.kind = "internal" -> GlowInternalBlock_backward(block, input, h, l1)
          [] op = "init" /\ block.kind = "top" -> GlowTopBlock_init(block, input, h, iscale[1], l1)
          [] OTHER -> GlowInternalBlock_init(block, input, h, iscale[1], l1))

\* Glow.__init__: the blocks of levels level .. levels-1
RECURSIVE BuildBlocks(_, _, _, _, _, _)
BuildBlocks(level, levels, num_steps, in_channels, scale, inverse) ==
    IF level >= levels THEN <<>>
    ELSE IF level = levels - 1
    THEN <<GlowTopBlock__init__(level, num_steps[level + 1], in_channels * 4, scale, inverse)>>
         \o BuildBlocks(level + 1, levels, num_steps, in_channels * 4, scale, inverse)
    ELSE <<GlowInternalBlock__init__(level, num_steps[level + 1], in_channels * 4, scale, inverse)>>
         \o BuildBlocks(level + 1, levels, num_steps, (in_channels * 4) \div 2, scale, inverse)

\* faulty variant: the first assertion accepts a single level
GlowArgsOk_OneLevel(levels, num_steps) == levels > 0 /\ levels = Len(num_steps)

\* the two assertions of Glow.__init__
GlowArgsOk(levels, num_steps) == levels > 1 /\ levels = Len(num_steps)

\* Glow.__init__: the outcome of Glow(levels, num_steps, in_channels, scale, inverse)
Glow__init__(levels, num_steps, in_channels, scale, inverse) ==
    IF ~GlowArgsOk(levels, num_steps)
    THEN [exc |-> "AssertionError", levels |-> levels, num_steps |-> num_steps,
          in_channels |-> in_channels, scale |-> scale, inverse |-> inverse, blocks |-> <<>>]
    ELSE [exc |-> "none", levels |-> levels, num_steps |-> num_steps,
          in_channels |-> in_channels, scale |-> scale, inverse |-> inverse,
          blocks |-> BuildBlocks(0, levels, num_steps, in_channels, scale, inverse)]

\* the state of a pass of the composer: a result and the residual list
Pass(out, logdet, log, outputs) ==
    [exc |-> "none", out |-> out, logdet |-> logdet, log |-> log, outputs |-> outputs]
PassRaise(exc, log, outputs) ==
    [exc |-> exc, out |-> <<>>, logdet |-> 0, log |-> log, outputs |-> outputs]

\* Glow.forward and Glow.init: for i, block in enumerate(self.blocks) from block i on
RECURSIVE LevelLoop(_, _, _, _, _, _)
LevelLoop(blocks, i, op, h, iscale, acc) ==
    IF i > Len(blocks) \/ acc.exc /= "none" THEN acc
    ELSE LevelLoop(blocks, i + 1, op, h, iscale,
             With(Block_call(blocks[i], op, squeeze2d(acc.out), h, iscale, acc.log), LAMBDA r :
                 IF r.exc /= "none" THEN PassRaise(r.exc, r.log, acc.outputs)
                 ELSE IF blocks[i].kind = "internal"
                 THEN With(split2d(r.out), LAMBDA sp :
                          Pass(sp[1], acc.logdet + r.logdet,
                               Append(r.log, Ev("push", Obj("glow", i - 1, -1), op, None, <<>>, sp[2])),
                               Append(acc.outputs, sp[2])))
                 ELSE Pass(r.out, acc.logdet + r.logdet, r.log, acc.outputs)))

\* Glow.forward and Glow.init: for _ in range(n): pop, unsplit2d, unsqueeze2d
RECURSIVE MergeLoop(_, _, _)
MergeLoop(n, op, acc) ==
    IF n <= 0 \/ acc.exc /= "none" THEN acc
    ELSE IF Len(acc.outputs) = 0 THEN PassRaise("IndexError", acc.log, acc.outputs)
    ELSE MergeLoop(n - 1, op,
             With(acc.outputs[Len(acc.outputs)], LAMBDA out2 :
                 Pass(unsqueeze2d(unsplit2d(acc.out, out2)), acc.logdet,
                      Append(acc.log, Ev("pop", Obj("glow", n - 1, -1), op, None, <<>>, out2)),
                      SubSeq(acc.outputs, 1, Len(acc.outputs) - 1))))

\* assert len(outputs) == 0; return out, logdet_accum
AssertEmpty(acc) ==
    IF acc.exc = "none" /\ Len(acc.outputs) /= 0
    THEN PassRaise("AssertionError", acc.log, acc.outputs)
    ELSE acc

\* Glow.forward(input, h)
Glow_forward(glow, input, h) ==
    Bind(LevelLoop(glow.blocks, 1, "forward", h, <<>>, Pass(input, 0, <<>>, <<>>)), LAMBDA a :
        AssertEmpty(MergeLoop(glow.levels - 1, "forward", [a EXCEPT !.out = unsqueeze2d(a.out)])))

\* Glow.init(data, h, init_scale)
Glow_init(glow, data, h, init_scale) ==
    Bind(LevelLoop(glow.blocks, 1, "init", h, <<init_scale>>, Pass(data, 0, <<>>, <<>>)), LAMBDA a :
        AssertEmpty(MergeLoop(glow.levels - 1, "init", [a EXCEPT !.out = unsqueeze2d(a.out)])))

\* Glow.backward: for _ in range(levels - 1): split2d, append, squeeze2d
\* (j counts the iterations done)
RECURSIVE PreSplitLoop(_, _, _)
PreSplitLoop(j, n, acc) ==
    IF j >= n THEN acc
    ELSE PreSplitLoop(j + 1, n,
             With(split2d(acc.out), LAMBDA sp :
                 Pass(squeeze2d(sp[1]), acc.logdet,
                      Append(acc.log, Ev("push", Obj("glow", j, -1), "backward", None, <<>>, sp[2])),
                      Append(acc.outputs, sp[2]))))

\* Glow.backward: if isinstance(block, GlowInternalBlock): pop, unsplit2d
PopAndUnsplit(block, level, acc) ==
    IF block.kind /= "internal" THEN acc
    ELSE IF Len(acc.outputs) = 0 THEN PassRaise("IndexError", acc.log, acc.outputs)
    ELSE With(acc.outputs[Len(acc.outputs)], LAMBDA out2 :
             Pass(unsplit2d(acc.out, out2), acc.logdet,
                  Append(acc.log, Ev("pop", Obj("glow", level, -1), "backward", None, <<>>, out2)),
                  SubSeq(acc.outputs, 1, Len(acc.outputs) - 1)))

\* Glow.backward: for i, block in enumerate(reversed(self.blocks)), block i downwards
RECURSIVE BackwardLoop(_, _, _, _)
BackwardLoop(blocks, i, h, acc) ==
    IF i < 1 \/ acc.exc /= "none" THEN acc
    ELSE BackwardLoop(blocks, i - 1, h,
             Bind(PopAndUnsplit(blocks[i], i - 1, acc), LAMBDA a :
             With(Block_call(blocks[i], "backward", a.out, h, <<>>, a.log), LAMBDA r :
                 IF r.exc /= "none" THEN PassRaise(r.exc, r.log, a.outputs)
                 ELSE Pass(unsqueeze2d(r.out), acc.logdet + r.logdet, r.log, a.outputs))))

\* Glow.backward(input, h)
Glow_backward(glow, input, h) ==
    AssertEmpty(BackwardLoop(glow.blocks, Len(glow.blocks), h,
                    PreSplitLoop(0, glow.levels - 1, Pass(squeeze2d(input), 0, <<>>, <<>>))))

\* ------------------------------------------------------------ model.py
\* faulty variant: the assertion on the direction flag is missing
FlowInverseOk_Missing(flow) == TRUE

\* the first assertion of FlowGenModel.__init__
FlowInverseOk(flow) == flow.inverse

\* FlowGenModel.__init__(flow, ngpu): held tells whether self.flow was ever
\* assigned; parallel whether it is the DataParallelFlow around the flow
FlowGenModel__init__(flow, ngpu) ==
    IF ~FlowInverseOk(flow)
    THEN [exc |-> "AssertionError", held |-> FALSE, inverse |-> flow.inverse, ngpu |-> ngpu, parallel |-> FALSE]
    ELSE IF ~(ngpu > 0)
    THEN [exc |-> "AssertionError", held |-> TRUE, inverse |-> flow.inverse, ngpu |-> ngpu, parallel |-> FALSE]
    ELSE [exc |-> "none", held |-> TRUE, inverse |-> flow.inverse, ngpu |-> ngpu, parallel |-> ngpu > 1]

\* ------------------------------------------------------ the state machine
VARIABLES glow, fgen, call
vars == <<glow, fgen, call>>

\* the arguments the client draws from
LevelArgs == 0 .. MaxLevels
StepLists == UNION {[1 .. n -> 0 .. MaxSteps] : n \in 0 .. MaxLevels}
Seeds == {0, 1}
Conds == {None, <<1>>}
\* init_scale: 1 stands for the default 1.0, 2 for another value (0 is 0.0)
InitScales == {1, 2}
Ops == {"forward", "backward", "init"}

\* a tensor of ch channels and n positions
TensorOf(ch, n, seed) ==
    AsSeq([c \in 1 .. ch |-> AsSeq([p \in 1 .. n |-> Mod5(seed + c + p * (p + seed))])])
\* an input of the composer: spatial extent divisible by 2^levels
GlowInput(g, seed) == TensorOf(g.in_channels, Pow4(g.levels), seed)
\* the couplings of the composer: of every step, and the prior of every internal block

\* the couplings of the composer: of every step, and the prior of every internal block
Couplings(g) ==
    UNION {{g.blocks[i].steps[j].coupling : j \in 1 .. Len(g.blocks[i].steps)} : i \in 1 .. Len(g.blocks)}
    \cup {g.blocks[i].prior : i \in 1 .. Len(g.blocks) - 1}
\* an input of a coupling of level nice.obj.level
CouplingInput(g, nice, seed) == TensorOf(nice.in_channels, Pow4(g.levels - 1 - nice.obj.level), seed)
\* the composer as the receiver of a call
GlowObj == Obj("glow", -1, -1)

Init ==
    /\ glow = [exc |-> "unbuilt"]
    /\ fgen = [exc |-> "unbuilt"]
    /\ call = [on |-> GlowObj, op |-> "none"]

\* glow = Glow(levels, num_steps, in_channels, scale, inverse)
NewGlow ==
    /\ glow.exc /= "none"
    /\ \E levels \in LevelArgs, num_steps \in StepLists, scale \in BOOLEAN, inverse \in BOOLEAN :
           glow' = Glow__init__(levels, num_steps, 1, scale, inverse)
    /\ UNCHANGED <<fgen, call>>

\* fgen = FlowGenModel(glow, ngpu)
NewFlowGenModel ==
    /\ glow.exc = "none"
    /\ \E ngpu \in 0 .. 2 : fgen' = FlowGenModel__init__(glow, ngpu)
    /\ UNCHANGED <<glow, call>>

\* glow.forward(x, h=h)
CallForward ==
    /\ glow.exc = "none"
    /\ call.op = "none"
    /\ \E seed \in Seeds, h \in Conds :
           call' = [on |-> GlowObj, op |-> "forward", input |-> GlowInput(glow, seed), h |-> h, iscale |-> <<>>,
                    res |-> Glow_forward(glow, GlowInput(glow, seed), h)]
    /\ UNCHANGED <<glow, fgen>>

\* glow.backward(z, h=h)
CallBackward ==
    /\ glow.exc = "none"
    /\ call.op = "none"
    /\ \E seed \in Seeds, h \in Conds :
           call' = [on |-> GlowObj, op |-> "backward", input |-> GlowInput(glow, seed), h |-> h, iscale |-> <<>>,
                    res |-> Glow_backward(glow, GlowInput(glow, seed), h)]
    /\ UNCHANGED <<glow, fgen>>

\* glow.init(data, h=h, init_scale=init_scale)
CallInit ==
    /\ glow.exc = "none"
    /\ call.op = "none"
    /\ \E seed \in Seeds, h \in Conds, init_scale \in InitScales :
           call' = [on |-> GlowObj, op |-> "init", input |-> GlowInput(glow, seed), h |-> h, iscale |-> <<init_scale>>,
                    res |-> Glow_init(glow, GlowInput(glow, seed), h, init_scale)]
    /\ UNCHANGED <<glow, fgen>>

\* a coupling of the composer called on its own: nice.forward(x, s),
\* nice.backward(x, s), nice.init(x, s, init_scale=init_scale)
CallCoupling ==
    /\ glow.exc = "none"
    /\ call.op = "none"
    /\ \E nice \in Couplings(glow), op \in Ops, seed \in Seeds, s \in Conds, init_scale \in InitScales :
           /\ op /= "init" => init_scale = 1
           /\ call' = [on |-> nice.obj, op |-> op, input |-> CouplingInput(glow, nice, seed), h |-> s,
                       iscale |-> IF op = "init" THEN <<init_scale>> ELSE <<>>,
                       res |-> NICE_call(nice, op, CouplingInput(glow, nice, seed), "s", s,
                                         IF op = "init" THEN <<init_scale>> ELSE <<>>, <<>>)
                               @@ [outputs |-> <<>>]]
    /\ UNCHANGED <<glow, fgen>>

\* the caller is done with what the call handed back (one thread of control:
\* the next call starts after the last one ended)
Discard ==
    /\ call.op /= "none"
    /\ call' = [on |-> GlowObj, op |-> "none"]
    /\ UNCHANGED <<glow, fgen>>

Next ==
    NewGlow \/ NewFlowGenModel \/ CallForward \/ CallBackward \/ CallInit \/ CallCoupling \/ Discard

Spec == Init /\ [][Next]_vars

\* ------------------------------------------------------------ the claims
Built == glow.exc = "none"
\* a call of the composer has ended
GlowCalled(op) == Built /\ call.op = op /\ call.on = GlowObj
\* the entries of a log of the given kind
Entries(log, kind) == SelectSeq(log, LAMBDA e : e.kind = kind)
\* the conditioning tensor a logged call hands to the callee
Received(e) == IF e.kw = "" THEN None ELSE e.cond
\* the sub-transforms of level k a pass called, in the order of the calls
SubTransforms(log, k) ==
    SelectSeq(log, LAMBDA e : e.kind = "call" /\ e.obj.level = k
                              /\ e.obj.role \in {"conv1x1", "coupling", "prior"})
ObjsOf(es) == AsSeq([i \in 1 .. Len(es) |-> es[i].obj])
ValsOf(es) == AsSeq([i \in 1 .. Len(es) |-> es[i].val])
\* the sub-transforms of block b in the order its forward is to apply them
ForwardOrder(b) ==
    AsSeq([i \in 1 .. 2 * Len(b.steps) |->
              IF i % 2 = 1 THEN b.steps[(i + 1) \div 2].conv1x1.obj ELSE b.steps[i \div 2].coupling.obj])
    \o (IF b.kind = "internal" THEN <<b.prior.obj>> ELSE <<>>)

\* C1: backward(forward(x)) returns x and forward(backward(z)) returns z, for
\* every composer, every input of a valid shape and no conditioning input.
CE_C1 ==
    /\ GlowCalled("forward") /\ call.h = None =>
           /\ call.res.exc = "none"
           /\ Glow_backward(glow, call.res.out, None).exc = "none"
           /\ Glow_backward(glow, call.res.out, None).out = call.input
    /\ GlowCalled("backward") /\ call.h = None =>
           /\ call.res.exc = "none"
           /\ Glow_forward(glow, call.res.out, None).exc = "none"
           /\ Glow_forward(glow, call.res.out, None).out = call.input

\* C2: on the round trip z = forward(x), backward(z), the logdet backward
\* returns is the negative of the logdet forward returned.
CE_C2 ==
    GlowCalled("forward") /\ call.h = None =>
        /\ call.res.exc = "none"
        /\ Glow_backward(glow, call.res.out, None).exc = "none"
        /\ Glow_backward(glow, call.res.out, None).logdet + call.res.logdet = 0

\* C3: a pass (forward, backward, init) returns with the residual list empty,
\* after levels-1 pushes and levels-1 pops, no pop on the empty list and the
\* final assertion passing.
CE_C3 ==
    \A op \in Ops : GlowCalled(op) =>
        /\ call.res.exc = "none"
        /\ call.res.outputs = <<>>
        /\ Len(Entries(call.res.log, "push")) = glow.levels - 1
        /\ Len(Entries(call.res.log, "pop")) = glow.levels - 1

\* C4: Glow(levels, num_steps, ...) succeeds exactly when levels > 1 and
\* len(num_steps) = levels; otherwise it fails with an AssertionError before a
\* block is built, so a composer has at least 2 levels and one block per
\* entry of num_steps.
Thm_C4 ==
    glow.exc /= "unbuilt" =>
        /\ glow.exc = "none" <=> (glow.levels > 1 /\ Len(glow.num_steps) = glow.levels)
        /\ glow.exc /= "none" => glow.exc = "AssertionError" /\ glow.blocks = <<>>
        /\ glow.exc = "none" => Len(glow.blocks) = glow.levels /\ Len(glow.blocks) = Len(glow.num_steps)
\* a construction refused for the length of num_steps alone
W_C4 == glow.exc = "AssertionError" /\ glow.levels = 2 /\ Len(glow.num_steps) = 1

\* C5 (as claimed): with scale=False every coupling of the model, the priors
\* included, returns logdet 0, and so does every pass that returns.
CE_C5 ==
    Built /\ ~glow.scale /\ call.op /= "none" =>
        /\ \A i \in 1 .. Len(call.res.log) :
               call.res.log[i].kind = "ret" => call.res.log[i].val = <<0>>
        /\ call.on = GlowObj /\ call.res.exc = "none" => call.res.logdet = 0

\* C5 (amended): with scale=False the coupling of every step is built
\* without scale and returns logdet 0 whenever it returns; the prior of every
\* internal block is built with scale=True whatever the flag.
Thm_C5 ==
    Built /\ ~glow.scale =>
        /\ \A nice \in Couplings(glow) : nice.scale <=> nice.obj.role = "prior"
        /\ call.op /= "none" =>
               \A i \in 1 .. Len(call.res.log) :
                   call.res.log[i].kind = "ret" /\ call.res.log[i].obj.role = "coupling"
                       => call.res.log[i].val = <<0>>
\* a pass of a composer built with scale=False in which a step's coupling returned
W_C5 ==
    /\ GlowCalled("backward") /\ ~glow.scale
    /\ \E i \in 1 .. Len(call.res.log) :
           call.res.log[i].kind = "ret" /\ call.res.log[i].obj.role = "coupling"

\* C6: FlowGenModel(flow) with flow.inverse false fails with an AssertionError
\* before the wrapper holds the flow; a FlowGenModel that exists wraps a flow
\* with inverse true.
Thm_C6 ==
    fgen.exc /= "unbuilt" =>
        /\ ~glow.inverse => fgen.exc = "AssertionError" /\ ~fgen.held
        /\ fgen.exc = "none" => glow.inverse /\ fgen.inverse /\ fgen.held
\* the wrapper refused a flow that is not in inverse mode
W_C6 == Built /\ ~glow.inverse /\ fgen.exc = "AssertionError"

\* C7: in every block the sub-transforms backward inverts are those forward
\* applies, in the reverse order: per step channel mixing then coupling, the
\* steps 0 .. n-1, the prior of an internal block last.
CE_C7 ==
    GlowCalled("forward") =>
        \A k \in 0 .. glow.levels - 1 :
            /\ ObjsOf(SubTransforms(call.res.log, k)) = ForwardOrder(glow.blocks[k + 1])
            /\ ObjsOf(SubTransforms(Glow_backward(glow, call.input, call.h).log, k))
                   = Reverse(ForwardOrder(glow.blocks[k + 1]))

\* C8: backward pushes the residuals of levels 0 .. L-2 in that order and
\* pops the one of level k right before internal block k; it is the partition
\* forward split off after internal block k and merged back at level k.
CE_C8 ==
    GlowCalled("forward") /\ call.h = None =>
        /\ call.res.exc = "none"
        /\ Len(Entries(call.res.log, "push")) = glow.levels - 1
        /\ ValsOf(Entries(Glow_backward(glow, call.res.out, None).log, "push"))
               = ValsOf(Entries(call.res.log, "push"))
        /\ ValsOf(Entries(Glow_backward(glow, call.res.out, None).log, "pop"))
               = Reverse(ValsOf(Entries(call.res.log, "push")))

CE_C10 ==
    GlowCalled("backward") =>
        \A i \in 1 .. Len(call.res.log) :
            call.res.log[i].kind = "call" => Received(call.res.log[i]) = call.h

====
